---- MODULE Spec2Model ----
(***************************************************************************)
(* A model of src/windaq.py: the class windaq, which decodes a WinDaq      *)
(* (.wdq) data-logger file held in one byte buffer.                        *)
(*                                                                         *)
(* Conventions of the model                                                *)
(*  - a byte buffer is a sequence of numbers 0..255; the byte at Python    *)
(*    offset o is buf[o + 1];                                              *)
(*  - text is a sequence of character codes (NUL is 0);                    *)
(*  - the doubles of the file are decoded from their IEEE 754 bytes; the   *)
(*    files of the model hold only small integral doubles, for which the   *)
(*    double arithmetic of the code is exact; the singles, which the code  *)
(*    only stores, are held as their sign, exponent and fraction fields;   *)
(*  - the values data() returns are held in quarters (fixed point with     *)
(*    denominator Quarter), since high-resolution samples are multiples    *)
(*    of 0.25;                                                             *)
(*  - nSample is the float dataSize / (2 * nChannels); it is held as the   *)
(*    exact fraction [num, den].                                           *)
(***************************************************************************)
EXTENDS Integers, Sequences, FiniteSets, TLC

VARIABLES
    fcontents,  \* self._fcontents: the bytes read from the file (line 35)
    pc,         \* "init" before windaq(filename), then "ready" or "failed"
    err,        \* the exception __init__ raised, "none" when it returned
    self,       \* the attributes of the object (lines 39-91)
    ret,        \* the latest accessor call: its name, argument and outcome
    prevData    \* the latest call of data(): its argument and outcome

vars == <<fcontents, pc, err, self, ret, prevData>>

(***************************************************************************)
(* Bounds of the model.                                                    *)
(***************************************************************************)
MaxChannels == 2
MaxSamples == 2
MaxExtra == 2
MaxSeed == 3
MaxCut == 1

(***************************************************************************)
(* Program constants.                                                      *)
(***************************************************************************)
ChannelMask == 31
PackedMask == 16384
PackedShift == 14
HiResMask == 2
Quarter == 4
NUL == 0

Pow2(k) == 2 ^ k

Min(a, b) == IF a < b THEN a ELSE b

Max(a, b) == IF a > b THEN a ELSE b

(***************************************************************************)
(* Bitwise and of two naturals, bit by bit (Python's & on non-negative     *)
(* ints).                                                                  *)
(***************************************************************************)
RECURSIVE BitAnd(_, _)
BitAnd(a, b) ==
    IF a = 0 \/ b = 0 THEN 0
    ELSE (IF a % 2 = 1 /\ b % 2 = 1 THEN 1 ELSE 0) + 2 * BitAnd(a \div 2, b \div 2)

ShiftRight(a, k) == a \div Pow2(k)

(***************************************************************************)
(* struct.unpack_from(fmt, buffer, offset).  A negative offset counts from *)
(* the end of the buffer; the read fails (struct.error) unless the whole   *)
(* field lies inside the buffer.                                           *)
(***************************************************************************)
EffOffset(buf, off) == IF off < 0 THEN off + Len(buf) ELSE off

CanUnpack(buf, off, size) ==
    /\ EffOffset(buf, off) >= 0
    /\ EffOffset(buf, off) + size <= Len(buf)

ByteAt(buf, off) == buf[EffOffset(buf, off) + 1]

\* "B": unsigned byte
UnpackB(buf, off) == ByteAt(buf, off)

\* "<H": unsigned 16-bit, little endian
UnpackUI(buf, off) == ByteAt(buf, off) + 256 * ByteAt(buf, EffOffset(buf, off) + 1)

\* two's complement of a w-bit unsigned value
Signed(u, w) == IF u >= Pow2(w - 1) THEN u - Pow2(w) ELSE u

\* "<h": signed 16-bit, little endian
UnpackI(buf, off) == Signed(UnpackUI(buf, off), 16)

\* "<L": unsigned 32-bit, little endian (the files of the model keep it below 2^31)
UnpackUL(buf, off) ==
    LET o == EffOffset(buf, off)
    IN  ByteAt(buf, o) + 256 * ByteAt(buf, o + 1) + 65536 * ByteAt(buf, o + 2)
          + 16777216 * ByteAt(buf, o + 3)

\* "<l": signed 32-bit, little endian
UnpackL(buf, off) ==
    LET o == EffOffset(buf, off)
    IN  ByteAt(buf, o) + 256 * ByteAt(buf, o + 1) + 65536 * ByteAt(buf, o + 2)
          + 16777216 * Signed(ByteAt(buf, o + 3), 8)

\* value of sign * sig * 2^e for the significands and exponents of the model
Scale2(sign, sig, e) ==
    (IF sign = 1 THEN -1 ELSE 1) * (IF e >= 0 THEN sig * Pow2(e) ELSE sig \div Pow2(-e))

\* "<d": IEEE 754 double, little endian: 1 sign bit, 11 exponent bits, 52
\* fraction bits.  Decoded for the doubles whose fraction has at most 4
\* leading bits set and whose value is integral.
UnpackD(buf, off) ==
    LET o    == EffOffset(buf, off)
        b7   == ByteAt(buf, o + 7)
        b6   == ByteAt(buf, o + 6)
        sign == b7 \div 128
        e    == (b7 % 128) * 16 + b6 \div 16
        frac == b6 % 16
    IN  IF e = 0 THEN 0 ELSE Scale2(sign, 16 + frac, e - 1023 - 4)

\* "<f": IEEE 754 single, little endian, as its fields: 1 sign bit, 8
\* exponent bits, 23 fraction bits (the value is never used in arithmetic)
UnpackF(buf, off) ==
    LET o  == EffOffset(buf, off)
        b3 == ByteAt(buf, o + 3)
        b2 == ByteAt(buf, o + 2)
    IN  [ sign     |-> b3 \div 128,
          exponent |-> (b3 % 128) * 2 + b2 \div 128,
          fraction |-> ByteAt(buf, o) + 256 * ByteAt(buf, o + 1) + 65536 * (b2 % 128) ]

\* "cccccc" / "c": the bytes themselves, one bytes object of length 1 each
UnpackChars(buf, off, n) == [k \in 1..n |-> ByteAt(buf, EffOffset(buf, off) + k - 1)]

\* bytes.decode("utf-8") of one byte succeeds exactly on ASCII
Decodable(b) == b < 128

(***************************************************************************)
(* Python list and slice indexing.                                         *)
(***************************************************************************)
\* list[i]: a negative index counts from the end; IndexError outside
IndexOK(list, i) == -Len(list) <= i /\ i < Len(list)

ListGet(list, i) == list[(IF i < 0 THEN i + Len(list) ELSE i) + 1]

\* arr[start::step] with step > 0
SliceStart(arr, start) == IF start < 0 THEN Max(start + Len(arr), 0) ELSE start

SliceCount(arr, start, step) ==
    IF SliceStart(arr, start) >= Len(arr) THEN 0
    ELSE (Len(arr) - SliceStart(arr, start) + step - 1) \div step

Slice(arr, start, step) ==
    [k \in 1..SliceCount(arr, start, step) |-> arr[SliceStart(arr, start) + (k - 1) * step + 1]]

\* str.split(sep) with an explicit separator: one more piece than separators
RECURSIVE Split(_, _)
Split(s, sep) ==
    IF \A k \in 1..Len(s) : s[k] # sep THEN <<s>>
    ELSE LET first == CHOOSE k \in 1..Len(s) :
                          s[k] = sep /\ \A j \in 1..(k - 1) : s[j] # sep
         IN  <<SubSeq(s, 1, first - 1)>> \o Split(SubSeq(s, first + 1, Len(s)), sep)

\* least element of a non-empty set of integers
Least(S) == CHOOSE x \in S : \A y \in S : x <= y

(***************************************************************************)
(* windaq.__init__, header (lines 37-57).  The statements in order; each   *)
(* read is <<offset, size>>, a statement that reads nothing has size 0.    *)
(***************************************************************************)
\* HeaderReads with the flags word read two bytes early
HeaderReadsFlagsEarly ==
    << <<1, 1>>, <<0, 1>>, <<4, 1>>, <<5, 1>>, <<6, 2>>, <<8, 4>>, <<0, 0>>, <<12, 4>>,
       <<16, 2>>, <<28, 8>>, <<36, 4>>, <<40, 4>>, <<0, 0>>, <<98, 2>>, <<98, 2>> >>

HeaderReads ==
    << <<1, 1>>,      \*  1  line 38      test of element 1 high byte
       <<0, 1>>,      \*  2  line 39/41   nChannels
       <<4, 1>>,      \*  3  line 43      _hChannels
       <<5, 1>>,      \*  4  line 44      _hChannelSize
       <<6, 2>>,      \*  5  line 45      _headSize
       <<8, 4>>,      \*  6  line 46      _dataSize
       <<0, 0>>,      \*  7  line 47      nSample (division)
       <<12, 4>>,     \*  8  line 48      _trailerSize
       <<16, 2>>,     \*  9  line 49      _annoSize
       <<28, 8>>,     \* 10  line 50      timeStep
       <<36, 4>>,     \* 11  line 51      e14
       <<40, 4>>,     \* 12  line 52      e15
       <<0, 0>>,      \* 13  lines 53-55  fileCreatedRaw, fileCreated, fileWritten
       <<100, 2>>,    \* 14  line 56      _packed
       <<100, 2>> >>  \* 15  line 57      _HiRes

DivisionStep == 7

\* nChannelsOf that masks whatever byte 1 holds
nChannelsOfAlwaysMasked(buf) == BitAnd(UnpackB(buf, 0), ChannelMask)

\* lines 38-41: the number of channels
nChannelsOf(buf) ==
    IF UnpackB(buf, 1) # 0
    THEN UnpackB(buf, 0)
    ELSE BitAnd(UnpackB(buf, 0), ChannelMask)

\* does header statement k raise, given that the statements before it ran
HeaderStepFails(buf, k) ==
    \/ ~CanUnpack(buf, HeaderReads[k][1], HeaderReads[k][2])
    \/ /\ k = DivisionStep
       /\ CanUnpack(buf, 1, 1) /\ CanUnpack(buf, 0, 1)
       /\ nChannelsOf(buf) = 0

\* the first header statement that raises, 0 when none does
HeaderFail(buf) ==
    LET bad == {k \in 1..Len(HeaderReads) : HeaderStepFails(buf, k)}
    IN  IF bad = {} THEN 0 ELSE Least(bad)

HeaderError(buf) ==
    IF HeaderFail(buf) = 0 THEN "none"
    ELSE IF CanUnpack(buf, HeaderReads[HeaderFail(buf)][1], HeaderReads[HeaderFail(buf)][2])
         THEN "ZeroDivisionError"
         ELSE "struct.error"

\* datetime.datetime.utcfromtimestamp / fromtimestamp of epoch seconds: the
\* calendar day (days since 1970-01-01) and the second of that day; the
\* local time zone of fromtimestamp is taken to be UTC
FromTimestamp(e) == [day |-> e \div 86400, sec |-> e % 86400]

\* the offset header statement k reads at
ReadAt(k) == HeaderReads[k][1]

\* the header attributes; one not yet assigned when __init__ raised is 0
HeaderFields(buf) ==
    LET hf      == HeaderFail(buf)
        ran(k)  == hf = 0 \/ k < hf
    IN  [ nChannels      |-> IF ran(2) THEN nChannelsOf(buf) ELSE 0,
          hChannels      |-> IF ran(3) THEN UnpackB(buf, ReadAt(3)) ELSE 0,
          hChannelSize   |-> IF ran(4) THEN UnpackB(buf, ReadAt(4)) ELSE 0,
          headSize       |-> IF ran(5) THEN UnpackI(buf, ReadAt(5)) ELSE 0,
          dataSize       |-> IF ran(6) THEN UnpackUL(buf, ReadAt(6)) ELSE 0,
          nSample        |-> IF ran(7)
                             THEN [num |-> UnpackUL(buf, ReadAt(6)),
                                   den |-> 2 * nChannelsOf(buf)]
                             ELSE [num |-> 0, den |-> 1],
          trailerSize    |-> IF ran(8) THEN UnpackUL(buf, ReadAt(8)) ELSE 0,
          annoSize       |-> IF ran(9) THEN UnpackUI(buf, ReadAt(9)) ELSE 0,
          timeStep       |-> IF ran(10) THEN UnpackD(buf, ReadAt(10)) ELSE 0,
          fileCreatedRaw |-> IF ran(13) THEN FromTimestamp(UnpackL(buf, ReadAt(11)))
                             ELSE FromTimestamp(0),
          fileCreated    |-> IF ran(13) THEN FromTimestamp(UnpackL(buf, ReadAt(11)))
                             ELSE FromTimestamp(0),
          fileWritten    |-> IF ran(13) THEN FromTimestamp(UnpackL(buf, ReadAt(12)))
                             ELSE FromTimestamp(0),
          packed         |-> IF ran(14)
                             THEN ShiftRight(BitAnd(UnpackUI(buf, ReadAt(14)), PackedMask),
                                             PackedShift)
                             ELSE 0,
          HiRes          |-> IF ran(15)
                             THEN BitAnd(UnpackUI(buf, ReadAt(15)), HiResMask)
                             ELSE 0 ]

\* the attribute names assigned by the header statements that ran
HeaderAssigned(buf) ==
    LET hf     == HeaderFail(buf)
        ran(k) == hf = 0 \/ k < hf
    IN  (IF ran(2) THEN {"nChannels"} ELSE {})
          \cup (IF ran(3) THEN {"hChannels"} ELSE {})
          \cup (IF ran(4) THEN {"hChannelSize"} ELSE {})
          \cup (IF ran(5) THEN {"headSize"} ELSE {})
          \cup (IF ran(6) THEN {"dataSize"} ELSE {})
          \cup (IF ran(7) THEN {"nSample"} ELSE {})
          \cup (IF ran(8) THEN {"trailerSize"} ELSE {})
          \cup (IF ran(9) THEN {"annoSize"} ELSE {})
          \cup (IF ran(10) THEN {"timeStep"} ELSE {})
          \cup (IF ran(13) THEN {"fileCreatedRaw", "fileCreated", "fileWritten"} ELSE {})
          \cup (IF ran(14) THEN {"packed"} ELSE {})
          \cup (IF ran(15) THEN {"HiRes"} ELSE {})

(***************************************************************************)
(* windaq.__init__, channel info (lines 59-80).  The reads of one pass of  *)
(* the loop in order, <<offset in the record, size>>; read 6 happens only  *)
(* in a packed file.                                                       *)
(***************************************************************************)
\* ChannelReads without the reserved byte in front of the divisor: the
\* divisor at 30, the physical channel at 31
ChannelReadsNoReserved ==
    << <<0, 4>>, <<4, 4>>, <<4 + 4, 8>>, <<4 + 4 + 8, 8>>, <<4 + 4 + 8 + 8, 6>>,
       <<4 + 4 + 8 + 8 + 6, 1>>, <<4 + 4 + 8 + 8 + 6 + 1, 1>> >>

ChannelReads ==
    << <<0, 4>>,                          \* 1  line 70  scalingSlope
       <<4, 4>>,                          \* 2  line 71  scalingIntercept
       <<4 + 4, 8>>,                      \* 3  line 72  calScaling
       <<4 + 4 + 8, 8>>,                  \* 4  line 73  calIntercept
       <<4 + 4 + 8 + 8, 6>>,              \* 5  line 74  engUnits
       <<4 + 4 + 8 + 8 + 6 + 1, 1>>,      \* 6  line 77  sampleRateDivisor
       <<4 + 4 + 8 + 8 + 6 + 1 + 1, 1>> >>  \* 7  line 80  phyChannel

DivisorRead == 6

\* line 69: channelOffset, channel counted from 0
ChannelOffset(h, channel) == h.hChannels + h.hChannelSize * channel

ChannelReadFails(buf, h, channel, j) ==
    /\ j = DivisorRead => h.packed # 0
    /\ ~CanUnpack(buf, ChannelOffset(h, channel) + ChannelReads[j][1], ChannelReads[j][2])

\* the first read of pass `channel` that raises, 0 when none does
PassFail(buf, h, channel) ==
    LET bad == {j \in 1..Len(ChannelReads) : ChannelReadFails(buf, h, channel, j)}
    IN  IF bad = {} THEN 0 ELSE Least(bad)

\* the loop of line 68 from pass `channel` on: the first failing
\* <<channel, read>>, <<-1, 0>> when the loop ends
RECURSIVE ChannelLoop(_, _, _)
ChannelLoop(buf, h, channel) ==
    IF channel >= h.nChannels THEN <<-1, 0>>
    ELSE IF PassFail(buf, h, channel) # 0 THEN <<channel, PassFail(buf, h, channel)>>
    ELSE ChannelLoop(buf, h, channel + 1)

ChannelFail(buf, h) == ChannelLoop(buf, h, 0)

\* how many appends list j has received when the loop ends or raises at cf
Appended(h, cf, j) ==
    IF cf[1] = -1 THEN h.nChannels
    ELSE cf[1] + (IF j < cf[2] THEN 1 ELSE 0)

\* the lists of lines 60-66 when the loop has ended or has raised at cf
ChannelFields(buf, h, cf) ==
    LET at(c, j) == ChannelOffset(h, c - 1) + ChannelReads[j][1]
    IN  [ scalingSlope      |-> [c \in 1..Appended(h, cf, 1) |-> UnpackF(buf, at(c, 1))],
          scalingIntercept  |-> [c \in 1..Appended(h, cf, 2) |-> UnpackF(buf, at(c, 2))],
          calScaling        |-> [c \in 1..Appended(h, cf, 3) |-> UnpackD(buf, at(c, 3))],
          calIntercept      |-> [c \in 1..Appended(h, cf, 4) |-> UnpackD(buf, at(c, 4))],
          engUnits          |-> [c \in 1..Appended(h, cf, 5) |->
                                    UnpackChars(buf, at(c, 5), ChannelReads[5][2])],
          sampleRateDivisor |-> [c \in 1..Appended(h, cf, 6) |->
                                    IF h.packed # 0 THEN UnpackB(buf, at(c, 6)) ELSE 1],
          phyChannel        |-> [c \in 1..Appended(h, cf, 7) |-> UnpackB(buf, at(c, 7))] ]

EmptyChannelFields ==
    [ scalingSlope |-> <<>>, scalingIntercept |-> <<>>, calScaling |-> <<>>,
      calIntercept |-> <<>>, engUnits |-> <<>>, sampleRateDivisor |-> <<>>,
      phyChannel |-> <<>> ]

ChannelListNames ==
    {"scalingSlope", "scalingIntercept", "calScaling", "calIntercept", "engUnits",
     "sampleRateDivisor", "phyChannel"}

(***************************************************************************)
(* windaq.__init__, user annotations (lines 82-87).                        *)
(***************************************************************************)
\* line 83
AnnotationOffset(h) == h.headSize + h.dataSize + h.trailerSize

\* the first pass i of the loop of line 85 that raises, -1 when none does
AnnotationFail(buf, h) ==
    LET bad == {i \in 0..(h.annoSize - 1) :
                   \/ ~CanUnpack(buf, AnnotationOffset(h) + i, 1)
                   \/ ~Decodable(ByteAt(buf, AnnotationOffset(h) + i))}
    IN  IF bad = {} THEN -1 ELSE Least(bad)

AnnotationError(buf, h) ==
    IF AnnotationFail(buf, h) = -1 THEN "none"
    ELSE IF ~CanUnpack(buf, AnnotationOffset(h) + AnnotationFail(buf, h), 1)
         THEN "struct.error"
         ELSE "UnicodeDecodeError"

\* aTemp when the loop has ended
AnnotationText(buf, h) ==
    [k \in 1..h.annoSize |-> ByteAt(buf, AnnotationOffset(h) + k - 1)]

\* Annotations that drops the empty piece after the last NUL
AnnotationsTrimmed(buf, h) ==
    LET pieces == Split(AnnotationText(buf, h), NUL)
    IN  IF pieces[Len(pieces)] = <<>> THEN SubSeq(pieces, 1, Len(pieces) - 1) ELSE pieces

\* line 87
Annotations(buf, h) == Split(AnnotationText(buf, h), NUL)

(***************************************************************************)
(* windaq.__init__, the view of the samples (lines 88-91).                 *)
(***************************************************************************)
\* int(x) of the non-negative fraction x
IntOf(x) == x.num \div x.den

\* int(self.nSample * self.nChannels): the product is dataSize / 2 exactly
\* whenever 2 * nChannels divides dataSize, and for every dataSize when
\* nChannels < 11 (the double rounding of x / (2 n) * n first shows at n = 11)
ViewCount(h) == (h.nSample.num * h.nChannels) \div h.nSample.den

\* numpy.frombuffer raises ValueError unless the offset is in the buffer and
\* count items of 2 bytes follow it
ViewFails(buf, h) ==
    \/ h.headSize < 0
    \/ h.headSize > Len(buf)
    \/ Len(buf) - h.headSize < 2 * ViewCount(h)

View(buf, h) == [k \in 1..ViewCount(h) |-> UnpackI(buf, h.headSize + 2 * (k - 1))]

(***************************************************************************)
(* windaq.__init__ as a whole (lines 23-91): the exception it raises       *)
(* ("none" when it returns) and the attributes assigned by then.           *)
(***************************************************************************)
InitError(buf) ==
    IF HeaderError(buf) # "none" THEN HeaderError(buf)
    ELSE LET h == HeaderFields(buf)
         IN  IF ChannelFail(buf, h)[1] # -1 THEN "struct.error"
             ELSE IF AnnotationError(buf, h) # "none" THEN AnnotationError(buf, h)
             ELSE IF ViewFails(buf, h) THEN "ValueError"
             ELSE "none"

InitObject(buf) ==
    LET h         == HeaderFields(buf)
        headerOK  == HeaderError(buf) = "none"
        cf        == ChannelFail(buf, h)
        tableOK   == headerOK /\ cf[1] = -1
        annoOK    == tableOK /\ AnnotationError(buf, h) = "none"
        viewOK    == annoOK /\ ~ViewFails(buf, h)
    IN  h @@ (IF headerOK THEN ChannelFields(buf, h, cf) ELSE EmptyChannelFields)
          @@ [ annotations |-> IF annoOK THEN Annotations(buf, h) ELSE <<>>,
               npdata      |-> IF viewOK THEN View(buf, h) ELSE <<>>,
               assigned    |-> HeaderAssigned(buf)
                                 \cup (IF headerOK THEN ChannelListNames ELSE {})
                                 \cup (IF annoOK THEN {"annotations"} ELSE {})
                                 \cup (IF viewOK THEN {"npdata"} ELSE {}) ]

(***************************************************************************)
(* The accessors (lines 93-128).  Each yields [exc, val]: the exception    *)
(* raised ("none" when it returns) and the value returned.                 *)
(***************************************************************************)
Result(exc, val) == [exc |-> exc, val |-> val]

\* a FloorQuarter that truncates toward zero, as int(x / 4) would
TruncQuarter(x) == IF x >= 0 THEN x \div Quarter ELSE -((-x) \div Quarter)

\* numpy.floor(x * 0.25) of an int16 x, as an integer
FloorQuarter(x) == x \div Quarter

\* lines 99-102: temp, in quarters
Scaled(obj, x) == IF obj.HiRes # 0 THEN x ELSE Quarter * FloorQuarter(x)

\* ChannelSlice that starts at channelNumber, one sample late
ChannelSliceFromNumber(obj, channelNumber) == Slice(obj.npdata, channelNumber, obj.nChannels)

\* line 98: npdata[(channelNumber-1)::nChannels]
ChannelSlice(obj, channelNumber) == Slice(obj.npdata, channelNumber - 1, obj.nChannels)

\* lines 93-106: data(channelNumber), the values in quarters
data(obj, channelNumber) ==
    LET sl == ChannelSlice(obj, channelNumber)
    IN  IF ~IndexOK(obj.calScaling, channelNumber - 1) THEN Result("IndexError", <<>>)
        ELSE Result("none",
                    [k \in 1..Len(sl) |->
                        ListGet(obj.calScaling, channelNumber - 1) * Scaled(obj, sl[k])
                          + Quarter * ListGet(obj.calIntercept, channelNumber - 1)])

\* lines 108-110: time()
time(obj) ==
    Result("none", [k \in 1..IntOf(obj.nSample) |-> (k - 1) * obj.timeStep])

\* lines 112-114: time_utc(); timeStep is a whole number of seconds in the
\* files of the model, so the nanoseconds within the second are 0
time_utc(obj) ==
    LET epoch == obj.fileCreatedRaw.day * 86400 + obj.fileCreatedRaw.sec
    IN  Result("none",
               [k \in 1..Len(time(obj).val) |->
                   FromTimestamp(epoch + time(obj).val[k]) @@ [ns |-> 0]])

\* line 123: unit.replace('\x00', '').strip() -- the value of the expression
Stripped(text) ==
    LET noNul == SelectSeq(text, LAMBDA ch : ch # NUL)
        white(ch) == ch \in {9, 10, 11, 12, 13, 28, 29, 30, 31, 32}
        keep  == {k \in 1..Len(noNul) : ~white(noNul[k])}
    IN  IF keep = {} THEN <<>>
        ELSE SubSeq(noNul, Least(keep), CHOOSE k \in keep : \A j \in keep : j <= k)

\* lines 116-124: unit(channelNumber).  Line 123 computes Stripped(unit) and
\* drops it (str is immutable, the result is not assigned); line 124 returns
\* the text of line 120.
unit(obj, channelNumber) ==
    IF ~IndexOK(obj.engUnits, channelNumber - 1) THEN Result("IndexError", <<>>)
    ELSE LET text == ListGet(obj.engUnits, channelNumber - 1)
         IN  IF \E k \in 1..Len(text) : ~Decodable(text[k])
             THEN Result("UnicodeDecodeError", <<>>)
             ELSE Result("none", text)

\* lines 126-128: chAnnotation(channelNumber)
chAnnotation(obj, channelNumber) ==
    IF ~IndexOK(obj.annotations, channelNumber - 1) THEN Result("IndexError", <<>>)
    ELSE Result("none", ListGet(obj.annotations, channelNumber - 1))

(***************************************************************************)
(* The files given to the decoder.  A file is laid out as the format lays  *)
(* it out: header, one record per channel, interleaved samples, trailer,   *)
(* annotations.  The fields are written with the inverses of the unpack    *)
(* operators above.                                                        *)
(***************************************************************************)
\* little-endian bytes of an unsigned number
PackLE(u, nbytes) == [k \in 1..nbytes |-> (u \div Pow2(8 * (k - 1))) % 256]

PackI(v) == PackLE(IF v < 0 THEN v + 65536 ELSE v, 2)

Abs(v) == IF v < 0 THEN -v ELSE v

\* floor(log2(a)) for a >= 1
Log2(a) == CHOOSE k \in 0..15 : Pow2(k) <= a /\ a < Pow2(k + 1)

\* the double of an integer v, |v| < 32
PackD(v) ==
    IF v = 0 THEN <<0, 0, 0, 0, 0, 0, 0, 0>>
    ELSE LET k   == Log2(Abs(v))
             sig == Abs(v) * Pow2(4 - k)
             e   == 1023 + k
         IN  <<0, 0, 0, 0, 0, 0, (e % 16) * 16 + (sig - 16),
               (IF v < 0 THEN 128 ELSE 0) + e \div 16>>

\* the single of an integer v, |v| < 256
PackF(v) ==
    IF v = 0 THEN <<0, 0, 0, 0>>
    ELSE LET k   == Log2(Abs(v))
             sig == Abs(v) * Pow2(7 - k)
             e   == 127 + k
         IN  <<0, 0, (e % 2) * 128 + (sig - 128), (IF v < 0 THEN 128 ELSE 0) + e \div 2>>

Put(buf, off, bytes) ==
    [k \in 1..Len(buf) |->
        IF k - 1 >= off /\ k - 1 < off + Len(bytes) THEN bytes[k - off] ELSE buf[k]]

Zeros(n) == [k \in 1..n |-> 0]

RECURSIVE Concat(_)
Concat(seqs) == IF seqs = <<>> THEN <<>> ELSE Head(seqs) \o Concat(Tail(seqs))

Layout == [hChannels |-> 110, hChannelSize |-> 36, trailerSize |-> 2]

RawPool == <<4, -8, -5, 7, -1, 0, 32767, -32768>>

CalScalePool == <<2, -1, 3>>

CalInterceptPool == <<1, 0, -3>>

\* "V", "mV  ", " A", and a tag that is not ASCII
UnitsPool ==
    << <<86, 0, 0, 0, 0, 0>>, <<109, 86, 32, 32, 0, 0>>, <<32, 65, 0, 0, 0, 0>>,
       <<176, 67, 0, 0, 0, 0>> >>

Pick(pool, k) == pool[(k % Len(pool)) + 1]

\* the record of channel c (from 1): byte 30 is reserved, byte 31 the sample
\* rate divisor, byte 32 the physical channel
FileRecord(p, c) ==
    Concat(<< PackF(c), PackF(-c),
              PackD(Pick(CalScalePool, p.seed + c)),
              PackD(Pick(CalInterceptPool, p.seed + c)),
              Pick(UnitsPool, p.seed + c - 1),
              <<77, 1 + c, 10 + c>>,
              Zeros(Layout.hChannelSize - 33) >>)

FileSamples(p) ==
    Concat([k \in 1..(p.n * p.ns) |-> PackI(Pick(RawPool, 3 * p.seed + k - 1))])
      \o [k \in 1..p.extra |-> 1]

\* "ch1\0ch2\0..." ; the same without the last NUL; nothing; a byte that is
\* not ASCII in front
FileAnnotations(p) ==
    LET full == Concat([c \in 1..p.n |-> <<99, 104, 48 + c, NUL>>])
        style == p.seed % 4
    IN  IF style = 0 THEN full
        ELSE IF style = 1 THEN SubSeq(full, 1, Len(full) - 1)
        ELSE IF style = 2 THEN <<>>
        ELSE <<200>> \o full

\* bytes 0 and 1: the count alone, the count under flag bits, the count with
\* a non-zero byte 1
FileCountBytes(p) ==
    IF p.enc = 0 THEN <<p.n, 0>>
    ELSE IF p.enc = 1 THEN <<p.n + 32 * (1 + (p.seed % 7)), 0>>
    ELSE <<p.n, 1>>

FileHeader(p) ==
    LET headSize == Layout.hChannels + Layout.hChannelSize * p.n
    IN  Concat(<< FileCountBytes(p),                              \* offset 0
                  Zeros(2),
                  <<Layout.hChannels, Layout.hChannelSize>>,      \* offset 4
                  PackI(headSize),                                \* offset 6
                  PackLE(2 * p.n * p.ns + p.extra, 4),            \* offset 8
                  PackLE(Layout.trailerSize, 4),                  \* offset 12
                  PackLE(Len(FileAnnotations(p)), 2),             \* offset 16
                  Zeros(10),
                  PackD(1 + (p.seed % 3)),                        \* offset 28
                  PackLE(172805 + p.seed, 4),                     \* offset 36
                  PackLE(172905 + p.seed, 4),                     \* offset 40
                  Zeros(56),
                  PackLE(p.flags, 2),                             \* offset 100
                  Zeros(Layout.hChannels - 102) >>)

\* a cut file loses p.cut times the trailer and one byte more
CutUnit == Layout.trailerSize + 1

MkFile(p) ==
    LET whole == Concat(<< FileHeader(p),
                           Concat([c \in 1..p.n |-> FileRecord(p, c)]),
                           FileSamples(p),
                           [k \in 1..Layout.trailerSize |-> 9],
                           FileAnnotations(p) >>)
    IN  SubSeq(whole, 1, Len(whole) - Min(CutUnit * p.cut, Len(whole)))

FlagChoices == {0, HiResMask, PackedMask, PackedMask + HiResMask, 1}

Encodings == {0, 1, 2}

\* whole files of every size, alignment and mode
SampleFiles ==
    { MkFile([n |-> n, enc |-> 0, ns |-> ns, extra |-> extra, flags |-> flags,
              seed |-> seed, cut |-> 0]) :
        n \in 0..MaxChannels, ns \in 0..MaxSamples, extra \in 0..MaxExtra,
        flags \in FlagChoices, seed \in 0..MaxSeed }

\* files with every encoding of the channel count, whole and without their
\* last bytes
EncodedFiles ==
    { MkFile([n |-> n, enc |-> enc, ns |-> 1, extra |-> 0, flags |-> 0,
              seed |-> seed, cut |-> cut]) :
        n \in 0..MaxChannels, enc \in Encodings, seed \in 0..MaxSeed, cut \in 0..MaxCut }

WholeFiles == SampleFiles \cup EncodedFiles

\* the length of buffer the header statements need
HeaderNeed ==
    CHOOSE m \in 0..200 :
        /\ \E k \in 1..Len(HeaderReads) : m = HeaderReads[k][1] + HeaderReads[k][2]
        /\ \A k \in 1..Len(HeaderReads) : m >= HeaderReads[k][1] + HeaderReads[k][2]

\* files cut inside the header
ShortFiles ==
    { SubSeq(MkFile([n |-> n, enc |-> enc, ns |-> 1, extra |-> 0, flags |-> 0,
                     seed |-> 0, cut |-> 0]), 1, len) :
        n \in 0..1, enc \in Encodings, len \in 0..(Layout.hChannels - 1) }

\* files whose channel table and samples lie inside the first bytes, among
\* the header fields the decoder does not read: table at 44, one record of
\* 33 bytes, one sample at 77, no trailer, no annotations
Compact == [hChannels |-> 44, hChannelSize |-> 33, headSize |-> 77]

CompactFile(flags, len) ==
    LET p  == [n |-> 1, enc |-> 0, ns |-> 1, extra |-> 0, flags |-> flags,
               seed |-> 0, cut |-> 0]
        h1 == Put(FileHeader(p), 4,
                  <<Compact.hChannels, Compact.hChannelSize>> \o PackI(Compact.headSize))
        h2 == Put(h1, 12, Zeros(6))
        h3 == Put(h2, Compact.hChannels, SubSeq(FileRecord(p, 1), 1, Compact.hChannelSize))
        h4 == Put(h3, Compact.headSize, PackI(-5))
    IN  SubSeq(h4, 1, len)

CompactFiles ==
    { CompactFile(flags, len) :
        flags \in {0, PackedMask}, len \in (Compact.headSize + 2)..(HeaderNeed + MaxCut) }

Files == WholeFiles \cup ShortFiles \cup CompactFiles

\* every pair of bytes 0 and 1 in front of the rest of a 1-channel file
CountFilesOver(bytes) ==
    LET base == MkFile([n |-> 1, enc |-> 0, ns |-> 1, extra |-> 0, flags |-> 0,
                        seed |-> 0, cut |-> 0])
        rest == SubSeq(base, 3, Len(base))
    IN  { <<b0, b1>> \o rest : b0 \in bytes, b1 \in bytes }

(***************************************************************************)
(* The state machine: a file is opened and decoded by __init__, then the   *)
(* accessors are called in any order with any channel number.              *)
(***************************************************************************)
ChannelNumbers == -1..(MaxChannels + 1)

\* the object before __init__ has assigned anything
NoObject == InitObject(<<>>)

NoCall == [op |-> "none", arg |-> 0, exc |-> "none", val |-> <<>>]

Call(op, arg, result) == [op |-> op, arg |-> arg, exc |-> result.exc, val |-> result.val]

Start(files) ==
    /\ fcontents \in files
    /\ pc = "init"
    /\ err = "none"
    /\ self = NoObject
    /\ ret = NoCall
    /\ prevData = NoCall

Init == Start(Files)

CountInit == Start(CountFilesOver(0..255))

\* windaq(filename)
Construct ==
    /\ pc = "init"
    /\ err' = InitError(fcontents)
    /\ self' = InitObject(fcontents)
    /\ pc' = IF err' = "none" THEN "ready" ELSE "failed"
    /\ UNCHANGED <<fcontents, ret, prevData>>

\* a data() that keeps the scaled samples in self.npdata
CallDataInPlace(c) ==
    /\ pc = "ready"
    /\ ret' = Call("data", c, data(self, c))
    /\ prevData' = Call("data", c, data(self, c))
    /\ self' = [self EXCEPT !.npdata = [k \in 1..Len(self.npdata) |-> Scaled(self, self.npdata[k])]]
    /\ UNCHANGED <<fcontents, pc, err>>

CallData(c) ==
    /\ pc = "ready"
    /\ ret' = Call("data", c, data(self, c))
    /\ prevData' = Call("data", c, data(self, c))
    /\ UNCHANGED <<fcontents, pc, err, self>>

CallTime ==
    /\ pc = "ready"
    /\ ret' = Call("time", 0, time(self))
    /\ UNCHANGED <<fcontents, pc, err, self, prevData>>

CallTimeUtc ==
    /\ pc = "ready"
    /\ ret' = Call("time_utc", 0, time_utc(self))
    /\ UNCHANGED <<fcontents, pc, err, self, prevData>>

CallUnit(c) ==
    /\ pc = "ready"
    /\ ret' = Call("unit", c, unit(self, c))
    /\ UNCHANGED <<fcontents, pc, err, self, prevData>>

CallChAnnotation(c) ==
    /\ pc = "ready"
    /\ ret' = Call("chAnnotation", c, chAnnotation(self, c))
    /\ UNCHANGED <<fcontents, pc, err, self, prevData>>

Next ==
    \/ Construct
    \/ \E c \in ChannelNumbers : CallData(c)
    \/ CallTime
    \/ CallTimeUtc
    \/ \E c \in ChannelNumbers : CallUnit(c)
    \/ \E c \in ChannelNumbers : CallChAnnotation(c)

Spec == Init /\ [][Next]_vars

SpecCount == CountInit /\ [][Next]_vars

(***************************************************************************)
(* The properties.  They read the file through the operators below, which  *)
(* take the bytes straight from fcontents.                                 *)
(***************************************************************************)
Byte(off) == fcontents[off + 1]

Int16At(off) ==
    LET u == Byte(off) + 256 * Byte(off + 1)
    IN  IF u >= 32768 THEN u - 65536 ELSE u

\* floor(x / 4), by division of non-negative numbers only
FloorBy4(x) == IF x >= 0 THEN x \div 4 ELSE -((-x + 3) \div 4)

Ready == pc = "ready"

Returned(op) == Ready /\ ret.op = op

InRange(c) == c >= 1 /\ c <= self.nChannels

\* C1: in normal mode data(c)[i], for c in [1, channelCount] and i in
\* [0, sampleCount), is calScale[c-1] * floor(raw / 4) + calIntercept[c-1],
\* raw being the signed little-endian 16-bit integer at offset
\* headerSectionLength + 2*(c-1) + 2*channelCount*i, and the division
\* flooring toward negative infinity (the values are held in quarters).
C1_DataFormula ==
    (Returned("data") /\ InRange(ret.arg) /\ self.HiRes = 0) =>
        /\ ret.exc = "none"
        /\ \A i \in 0..(IntOf(self.nSample) - 1) :
              /\ i + 1 <= Len(ret.val)
              /\ ret.val[i + 1] =
                    Quarter * (self.calScaling[ret.arg]
                                 * FloorBy4(Int16At(self.headSize + 2 * (ret.arg - 1)
                                                      + 2 * self.nChannels * i))
                               + self.calIntercept[ret.arg])

\* a normal-mode data(1) of a 2-channel file has returned, one of the raw
\* samples of the channel is -5, and it came out as scale * (-2) + intercept
C1_Witness ==
    /\ Returned("data") /\ ret.arg = 1 /\ self.nChannels = 2 /\ self.HiRes = 0
    /\ \E i \in 0..(IntOf(self.nSample) - 1) :
          /\ Int16At(self.headSize + 4 * i) = -5
          /\ ret.val[i + 1] = Quarter * (self.calScaling[1] * (-2) + self.calIntercept[1])

\* C2: data(channelNumber) fails with an index error for every channelNumber
\* outside [1, channelCount], channelNumber = 0 and channelCount + 1 among
\* them; it never returns samples for such a number.
C2_OutOfRangeFails ==
    (Returned("data") /\ ~InRange(ret.arg)) => ret.exc = "IndexError"

\* C3 as it holds: in every channel record the sample-rate divisor is the
\* byte at offset 31 of the record when the packed flag is set and 1
\* otherwise, and the physical channel id is the byte at offset 32.
C3_RecordBytes ==
    Ready =>
        \A c \in 1..self.nChannels :
            LET base == self.hChannels + self.hChannelSize * (c - 1)
            IN  /\ self.sampleRateDivisor[c] =
                      (IF (Byte(101) \div 64) % 2 = 1 THEN Byte(base + 31) ELSE 1)
                /\ self.phyChannel[c] = Byte(base + 32)

\* C3 as claimed: the divisor at offset 30, the physical channel id at 31.
C3_RecordBytesClaimed ==
    Ready =>
        \A c \in 1..self.nChannels :
            LET base == self.hChannels + self.hChannelSize * (c - 1)
            IN  /\ self.sampleRateDivisor[c] =
                      (IF (Byte(101) \div 64) % 2 = 1 THEN Byte(base + 30) ELSE 1)
                /\ self.phyChannel[c] = Byte(base + 31)

\* a packed 2-channel file is decoded, and in both records the bytes at 30,
\* 31 and 32 differ from each other
C3_Witness ==
    /\ Ready /\ self.nChannels = 2 /\ self.packed = 1
    /\ \A c \in 1..2 :
          LET base == self.hChannels + self.hChannelSize * (c - 1)
          IN  /\ Byte(base + 30) # Byte(base + 31)
              /\ Byte(base + 31) # Byte(base + 32)
              /\ Byte(base + 30) # Byte(base + 32)
              /\ self.sampleRateDivisor[c] = Byte(base + 31)

\* C4: construction fails whenever dataSectionLength is not divisible by
\* 2 * channelCount; in every constructed object sampleCount is the quotient
\* with zero remainder.
C4_MisalignedFails ==
    Ready =>
        /\ self.dataSize % (2 * self.nChannels) = 0
        /\ self.nSample.num = self.nSample.den * IntOf(self.nSample)

\* the bytes of the annotation range: annotationSectionLength bytes from
\* headerSectionLength + dataSectionLength + trailerSectionLength
AnnotationRange ==
    [k \in 1..self.annoSize |-> Byte(self.headSize + self.dataSize + self.trailerSize + k - 1)]

NulCount(text) == Cardinality({k \in 1..Len(text) : text[k] = 0})

\* the pieces joined again, a NUL after each but the last
RECURSIVE Joined(_)
Joined(pieces) ==
    IF Len(pieces) = 1 THEN pieces[1]
    ELSE pieces[1] \o <<0>> \o Joined(Tail(pieces))

\* "ch1\0ch2\0", "ch1", "ch2"
Ch1Ch2Bytes == <<99, 104, 49, 0, 99, 104, 50, 0>>

Ch1 == <<99, 104, 49>>

Ch2 == <<99, 104, 50>>

\* C5 as it holds: the annotation list is the annotation byte range split
\* on NUL bytes: it has one entry more than the range has NUL bytes (so
\* channelCount + 1 entries, the last one empty, when each channel's text
\* ends in a NUL), no entry holds a NUL, and the entries joined by NULs are
\* the range; entry i is channel i+1's text; the bytes "ch1\0ch2\0" of a
\* 2-channel file yield ["ch1", "ch2", ""], and annotation(1) = "ch1".
C5_AnnotationSplit ==
    Ready =>
        /\ Len(self.annotations) = NulCount(AnnotationRange) + 1
        /\ \A i \in 1..Len(self.annotations) : NulCount(self.annotations[i]) = 0
        /\ Joined(self.annotations) = AnnotationRange
        /\ (self.nChannels = 2 /\ AnnotationRange = Ch1Ch2Bytes) =>
              /\ self.annotations = <<Ch1, Ch2, <<>>>>
              /\ (ret.op = "chAnnotation" /\ ret.arg = 1) =>
                    (ret.exc = "none" /\ ret.val = Ch1)

\* C5 as claimed: the list has exactly channelCount entries, and the bytes
\* "ch1\0ch2\0" of a 2-channel file yield exactly ["ch1", "ch2"].
C5_AnnotationSplitClaimed ==
    Ready =>
        /\ Len(self.annotations) = self.nChannels
        /\ (self.nChannels = 2 /\ AnnotationRange = Ch1Ch2Bytes) =>
              self.annotations = <<Ch1, Ch2>>

\* chAnnotation(1) has returned on a 2-channel file whose annotation bytes
\* are "ch1\0ch2\0"
C5_Witness ==
    /\ Returned("chAnnotation") /\ ret.arg = 1 /\ ret.val = Ch1
    /\ self.nChannels = 2 /\ AnnotationRange = Ch1Ch2Bytes

\* the 6-byte units tag of channel c in the file
UnitsTag(c) ==
    [k \in 1..6 |-> Byte(self.hChannels + self.hChannelSize * (c - 1) + 24 + k - 1)]

\* C6: unit(c), for c in [1, channelCount], returns the units tag with the
\* NUL bytes and the surrounding whitespace removed; the string returned
\* holds no NUL (the tag "V\0\0\0\0\0" yields "V").
C6_UnitStripped ==
    (Returned("unit") /\ InRange(ret.arg) /\ ret.exc = "none") =>
        /\ NulCount(ret.val) = 0
        /\ ret.val = Stripped(UnitsTag(ret.arg))

\* C7: the channel count is the byte at offset 0 when the byte at offset 1
\* is non-zero, and the 5 low bits of the byte at offset 0 when the byte at
\* offset 1 is zero, for every pair of byte values.
C7_ChannelCount ==
    "nChannels" \in self.assigned =>
        self.nChannels = (IF Byte(1) # 0 THEN Byte(0) ELSE Byte(0) % 32)

\* a file whose byte 0 is 33 and byte 1 is 0 is decoded as 1 channel, and
\* its channel 1 is read
C7_Witness ==
    /\ Returned("data") /\ ret.arg = 1 /\ ret.exc = "none"
    /\ Byte(0) = 33 /\ Byte(1) = 0 /\ self.nChannels = 1

\* C8: for a file whose dataSectionLength is divisible by 2 * channelCount,
\* data(c) has exactly sampleCount elements for every c in [1, channelCount].
C8_DataLength ==
    (Returned("data") /\ InRange(ret.arg) /\ self.dataSize % (2 * self.nChannels) = 0) =>
        /\ ret.exc = "none"
        /\ Len(ret.val) = self.dataSize \div (2 * self.nChannels)

\* data(2) of a 2-channel file with 2 samples per channel has returned
C8_Witness ==
    /\ Returned("data") /\ ret.arg = 2 /\ self.nChannels = 2
    /\ self.dataSize = 8 /\ Len(ret.val) = 2

\* bytes 0 and 1 resolve to a channel count of 0
CountBytesZero == IF Byte(1) # 0 THEN Byte(0) = 0 ELSE Byte(0) % 32 = 0

\* C9 as it holds: constructing from a buffer shorter than 102 bytes always
\* fails and yields no object; the failure is the truncated read
\* (struct.error), except that a buffer of 12 bytes or more whose channel
\* count resolves to 0 fails with ZeroDivisionError.
C9_ShortBufferFails ==
    (pc # "init" /\ Len(fcontents) < 102) =>
        /\ pc = "failed"
        /\ err = (IF Len(fcontents) >= 12 /\ CountBytesZero
                  THEN "ZeroDivisionError" ELSE "struct.error")

\* C9 as claimed: the failure is always the truncated-header error.
C9_ShortBufferFailsClaimed ==
    (pc # "init" /\ Len(fcontents) < 102) => (pc = "failed" /\ err = "struct.error")

\* a buffer of 101 bytes, which lacks only the last byte of the flags word
\* and holds its channel table and samples inside those 101 bytes, has
\* failed with the truncated read
C9_Witness ==
    /\ pc = "failed" /\ err = "struct.error" /\ Len(fcontents) = 101
    /\ Byte(4) + Byte(5) <= 101 /\ self.nChannels = 1
    /\ "timeStep" \in self.assigned /\ "packed" \notin self.assigned

\* C10: after construction no accessor call, successful or failing, changes
\* the buffer or any attribute of the object, and data(c) returns what the
\* latest data(c) with the same c returned, whatever was called in between.
C10_Immutable ==
    [][Ready =>
         /\ self' = self
         /\ fcontents' = fcontents
         /\ pc' = pc
         /\ (ret'.op = "data" /\ prevData.op = "data" /\ prevData.arg = ret'.arg) =>
               (ret'.exc = prevData.exc /\ ret'.val = prevData.val)]_vars

\* data() has returned samples, and the latest call after it is another
\* accessor that failed
C10_Witness ==
    /\ Ready /\ prevData.op = "data" /\ prevData.exc = "none" /\ Len(prevData.val) >= 2
    /\ ret.op \in {"unit", "chAnnotation"} /\ ret.exc = "IndexError"

====
